---- MODULE Spec2Model ----
(***************************************************************************)
(* A model of the simple_server thread pool (src/src/lib.rs).              *)
(*                                                                         *)
(* ThreadPool owns a vector of Workers and an Option<mpsc::Sender<Job>>.   *)
(* Every Worker thread loops on `receiver.lock().unwrap().recv()` and runs *)
(* the Job it receives.  Dropping the pool takes the sender and then joins *)
(* the Worker threads in index order.                                      *)
(*                                                                         *)
(* The std channel is modelled by what it does: an unbounded FIFO buffer   *)
(* that is disconnected for the receiver once every Sender is gone, and    *)
(* for the senders once the Receiver is gone (its buffer is then dropped). *)
(* The std Mutex is modelled by its owner and its poison flag.             *)
(***************************************************************************)
EXTENDS Integers, Sequences, FiniteSets

\* Bounds of the model.
MaxSize == 3       \* largest pool size passed to ThreadPool::new
MaxJobs == 3       \* number of Jobs the callers ever try to send
MaxClones == 1     \* clones of the public sender field held by callers
NumCallers == 2    \* caller threads sharing &ThreadPool

VARIABLES
    pc,         \* the pool's life: "start", "new_panicked", "live",
                \* "drop_join", "dropped", "drop_panicked"
    reqSize,    \* the `size` that ThreadPool::new was called with
    channel,    \* TRUE once mpsc::channel() has been called (lib.rs:35)
    workers,    \* ThreadPool.workers: index -> [id, thread]
    sender,     \* ThreadPool.sender: "Some" or "None"
    clones,     \* number of clones of the sender held outside the pool
    queue,      \* the channel's buffer, a sequence of Jobs
    lockOwner,  \* the Worker holding the MutexGuard of the receiver, or NoOwner
    poisoned,   \* the Mutex's poison flag
    wstate,     \* each Worker thread's position in its loop
    wjob,       \* the Job a Worker is executing, or NoJob
    joinIdx,    \* the Worker that drop's loop is joining
    nextJob,    \* the next Job a caller will create (Jobs are numbered as created)
    cstate,     \* each caller thread: "running" or "panicked"
    enqLog,     \* history: Jobs in the order they entered the channel
    deqLog,     \* history: Jobs in the order recv() returned them to be run
    completed   \* history: Jobs whose execution returned

vars == <<pc, reqSize, channel, workers, sender, clones, queue, lockOwner, poisoned,
          wstate, wjob, joinIdx, nextJob, cstate, enqLog, deqLog,
          completed>>

poolVars == <<pc, reqSize, channel, workers, joinIdx>>
histVars == <<enqLog, deqLog, completed>>

NoOwner == -1
NoJob == 0
Jobs == 1..MaxJobs
Callers == 1..NumCallers

\* The Worker indices of the pool: `0..size` of ThreadPool::new.
WorkerIds == DOMAIN workers

\* Worker { id, thread: Some(thread) } as built by Worker::new.
\* Faulty variant: the ids are counted from 1.
WorkerOneBased(id) == [id |-> id + 1, thread |-> "Some"]

Worker(id) == [id |-> id, thread |-> "Some"]

\* A Worker thread has ended: it broke out of its loop, or it unwound.
Finished(w) == wstate[w] \in {"terminated", "panicked"}

\* The Arc<Mutex<Receiver>> is alive while some Worker closure still owns a
\* clone of it; ThreadPool::new drops its own reference when it returns.
ReceiverAlive == \E w \in WorkerIds : ~Finished(w)

\* The Arc is alive after Worker w's thread has ended.
ReceiverAliveWithout(w) == \E v \in WorkerIds \ {w} : ~Finished(v)

\* Every Sender of the channel is gone: the pool's and every clone.
Disconnected == sender = "None" /\ clones = 0

IsPrefix(s, t) ==
    /\ Len(s) <= Len(t)
    /\ \A i \in 1..Len(s) : s[i] = t[i]

Range(s) == {s[i] : i \in 1..Len(s)}

Init ==
    /\ pc = "start"
    /\ reqSize = 0
    /\ channel = FALSE
    /\ workers = [i \in {} |-> Worker(i)]
    /\ sender = "None"
    /\ clones = 0
    /\ queue = <<>>
    /\ lockOwner = NoOwner
    /\ poisoned = FALSE
    /\ wstate = [i \in {} |-> "locking"]
    /\ wjob = [i \in {} |-> NoJob]
    /\ joinIdx = 0
    /\ nextJob = 1
    /\ cstate = [c \in Callers |-> "running"]
    /\ enqLog = <<>>
    /\ deqLog = <<>>
    /\ completed = {}

----------------------------------------------------------------------------
\* ThreadPool::new (lib.rs:32-47)

\* `assert!(size > 0)`
\* Faulty variant: the assertion is missing.
SizeUnchecked(size) == TRUE

SizeOk(size) == size > 0

\* `sender: Some(sender)` of the ThreadPool that new returns.
\* Faulty variant: the pool is built without its sender.
NewSenderMissing == "None"

NewSender == "Some"

\* ThreadPool::new(size): the assertion, then the channel, then one Worker
\* per id in 0..size, each thread starting at the top of its loop.
new(size) ==
    /\ pc = "start"
    /\ reqSize' = size
    /\ IF SizeOk(size)
       THEN /\ pc' = "live"
            /\ channel' = TRUE
            /\ workers' = [id \in 0..(size - 1) |-> Worker(id)]
            /\ wstate' = [id \in 0..(size - 1) |-> "locking"]
            /\ wjob' = [id \in 0..(size - 1) |-> NoJob]
            /\ sender' = NewSender
       ELSE /\ pc' = "new_panicked"
            /\ UNCHANGED <<channel, workers, wstate, wjob, sender>>
    /\ UNCHANGED <<clones, queue, lockOwner, poisoned, joinIdx, nextJob,
                   cstate>>
    /\ UNCHANGED histVars

----------------------------------------------------------------------------
\* ThreadPool::execute (lib.rs:65-71)

\* `self.sender.as_ref().unwrap().send(job).unwrap()`: the first unwrap
\* panics on None, send fails when the Receiver is gone and the second
\* unwrap panics on that.
\* Faulty variant: `if let Some(s) = &self.sender`, a None is passed over.
ExecuteResultSilent(s, alive) ==
    IF s = "None" THEN "ignored" ELSE IF alive THEN "sent" ELSE "panic"

\* Faulty variant: execute sends through a handle the release left alive.
ExecuteResultStale(s, alive) == IF alive THEN "sent" ELSE "panic"

ExecuteResult(s, alive) ==
    IF s = "None" THEN "panic" ELSE IF alive THEN "sent" ELSE "panic"

\* Sender::send on a live channel appends to the buffer.
Send(q, j) == Append(q, j)

\* Caller c calls pool.execute(job) with a fresh Job.
execute(c) ==
    /\ pc = "live"
    /\ cstate[c] = "running"
    /\ nextJob <= MaxJobs
    /\ LET job == nextJob
           res == ExecuteResult(sender, ReceiverAlive)
       IN /\ nextJob' = nextJob + 1
          /\ queue' = IF res = "sent" THEN Send(queue, job) ELSE queue
          /\ enqLog' = IF res = "sent" THEN Append(enqLog, job) ELSE enqLog
          /\ cstate' = IF res = "panic"
                       THEN [cstate EXCEPT ![c] = "panicked"]
                       ELSE cstate
    /\ UNCHANGED <<sender, clones, lockOwner, poisoned, wstate, wjob>>
    /\ UNCHANGED poolVars
    /\ UNCHANGED <<deqLog, completed>>

----------------------------------------------------------------------------
\* The public field `sender` (lib.rs:10), as integration_test.rs:7 reads it.

\* A caller clones the pool's Sender: `pool.sender.clone()`.
clone_sender ==
    /\ pc = "live"
    /\ sender = "Some"
    /\ clones < MaxClones
    /\ clones' = clones + 1
    /\ UNCHANGED <<sender, queue, lockOwner, poisoned, wstate, wjob, nextJob,
                   cstate>>
    /\ UNCHANGED poolVars
    /\ UNCHANGED histVars

\* A caller releases the pool's Sender itself: `pool.sender.take()`.
take_sender ==
    /\ pc = "live"
    /\ sender = "Some"
    /\ sender' = "None"
    /\ UNCHANGED <<clones, queue, lockOwner, poisoned, wstate, wjob, nextJob,
                   cstate>>
    /\ UNCHANGED poolVars
    /\ UNCHANGED histVars

\* The holder of a clone sends a Job through it; send returns Err when the
\* Receiver is gone.  A clone is independent of the pool's life.
clone_send ==
    /\ clones > 0
    /\ nextJob <= MaxJobs
    /\ LET job == nextJob
       IN /\ nextJob' = nextJob + 1
          /\ queue' = IF ReceiverAlive THEN Send(queue, job) ELSE queue
          /\ enqLog' = IF ReceiverAlive THEN Append(enqLog, job) ELSE enqLog
    /\ UNCHANGED <<sender, clones, lockOwner, poisoned, wstate, wjob, cstate>>
    /\ UNCHANGED poolVars
    /\ UNCHANGED <<deqLog, completed>>

\* The holder of a clone drops it.
clone_drop ==
    /\ clones > 0
    /\ clones' = clones - 1
    /\ UNCHANGED <<sender, queue, lockOwner, poisoned, wstate, wjob, nextJob,
                   cstate>>
    /\ UNCHANGED poolVars
    /\ UNCHANGED histVars

----------------------------------------------------------------------------
\* The Worker thread's loop (lib.rs:117-124)

\* Mutex::lock blocks while another thread holds the guard.
\* Faulty variant: lock() does not wait for the guard's holder.
LockNeverWaits == TRUE

LockFree == lockOwner = NoOwner

\* Who holds the guard once `let message = receiver.lock().unwrap().recv();`
\* has completed: the guard is a temporary of that statement and is dropped
\* at its end, before `match message` runs the Job.
\* Faulty variant: the guard is bound for the whole loop body.
GuardHeldAcrossJob(w) == w

GuardAfterRecv(w) == NoOwner

\* Receiver::recv returns the oldest buffered Job and removes it.
\* Faulty variant: the newest buffered Job is returned.
RecvNewest(q) == q[Len(q)]

RecvJob(q) == Head(q)

RecvRest(q) == Tail(q)

\* recv returns Err only when the buffer is empty and every Sender is gone.
RecvErr(q) == q = <<>> /\ Disconnected

\* The buffer after Worker w's thread has ended: the last Worker closure
\* to go drops the Receiver and with it whatever is still buffered.
QueueAfterExit(w) == IF ReceiverAliveWithout(w) THEN queue ELSE <<>>

\* The guard after the loop body (or the thread) of Worker w has ended.
\* Faulty variant: the guard is leaked and the Mutex stays locked.
GuardKeptAfterScope(w) == lockOwner

GuardAfterScope(w) == IF lockOwner = w THEN NoOwner ELSE lockOwner

\* `receiver.lock().unwrap()`: take the guard; a poisoned Mutex answers Err
\* and the unwrap ends the thread.
worker_lock(w) ==
    /\ w \in WorkerIds
    /\ wstate[w] = "locking"
    /\ LockFree
    /\ IF poisoned
       THEN /\ wstate' = [wstate EXCEPT ![w] = "panicked"]
            /\ queue' = QueueAfterExit(w)
            /\ UNCHANGED lockOwner
       ELSE /\ wstate' = [wstate EXCEPT ![w] = "receiving"]
            /\ lockOwner' = w
            /\ UNCHANGED queue
    /\ UNCHANGED <<sender, clones, poisoned, wjob, nextJob, cstate>>
    /\ UNCHANGED poolVars
    /\ UNCHANGED histVars

\* `.recv()` returns Ok(job); `match message { Ok(job) => job() }` starts it.
worker_recv_ok(w) ==
    /\ w \in WorkerIds
    /\ wstate[w] = "receiving"
    /\ queue # <<>>
    /\ LET job == RecvJob(queue)
       IN /\ queue' = RecvRest(queue)
          /\ wjob' = [wjob EXCEPT ![w] = job]
          /\ deqLog' = Append(deqLog, job)
    /\ wstate' = [wstate EXCEPT ![w] = "executing"]
    /\ lockOwner' = GuardAfterRecv(w)
    /\ UNCHANGED <<sender, clones, poisoned, nextJob, cstate>>
    /\ UNCHANGED poolVars
    /\ UNCHANGED <<enqLog, completed>>

\* `.recv()` returns Err; `Err(_) => break` ends the thread.
worker_recv_err(w) ==
    /\ w \in WorkerIds
    /\ wstate[w] = "receiving"
    /\ RecvErr(queue)
    /\ wstate' = [wstate EXCEPT ![w] = "terminated"]
    /\ lockOwner' = GuardAfterScope(w)
    /\ queue' = QueueAfterExit(w)
    /\ UNCHANGED <<sender, clones, poisoned, wjob, nextJob, cstate>>
    /\ UNCHANGED poolVars
    /\ UNCHANGED histVars

\* The Job returns; the Worker goes back to the top of its loop.
job_return(w) ==
    /\ w \in WorkerIds
    /\ wstate[w] = "executing"
    /\ wstate' = [wstate EXCEPT ![w] = "locking"]
    /\ wjob' = [wjob EXCEPT ![w] = NoJob]
    /\ lockOwner' = GuardAfterScope(w)
    /\ completed' = completed \cup {wjob[w]}
    /\ UNCHANGED <<sender, clones, queue, poisoned, nextJob, cstate>>
    /\ UNCHANGED poolVars
    /\ UNCHANGED <<enqLog, deqLog>>

\* The Job panics: nothing in the loop catches the unwind, which ends the
\* thread.  A guard held by the unwinding thread poisons the Mutex when it
\* is dropped.
job_panic(w) ==
    /\ w \in WorkerIds
    /\ wstate[w] = "executing"
    /\ wstate' = [wstate EXCEPT ![w] = "panicked"]
    /\ wjob' = [wjob EXCEPT ![w] = NoJob]
    /\ poisoned' = (poisoned \/ lockOwner = w)
    /\ lockOwner' = GuardAfterScope(w)
    /\ queue' = QueueAfterExit(w)
    /\ UNCHANGED <<sender, clones, nextJob, cstate>>
    /\ UNCHANGED poolVars
    /\ UNCHANGED histVars

----------------------------------------------------------------------------
\* impl Drop for ThreadPool (lib.rs:74-85)

\* `self.sender.take()` leaves None behind; the taken Sender is dropped.
\* Faulty variant: the sender is still in place when the joins begin.
SenderKept(s) == s

SenderAfterTake(s) == "None"

\* JoinHandle::join returns once the thread has ended.
\* Faulty variant: the handle is dropped (detached) instead of joined.
JoinNoWait(w) == TRUE

JoinReturns(w) == Finished(w)

\* `thread.join()` is Err when the thread panicked.
\* Faulty variant: the result of join is ignored (`let _ = thread.join()`).
JoinResultIgnored(w) == "Ok"

JoinResult(w) == IF wstate[w] = "panicked" THEN "Err" ELSE "Ok"

\* The next Worker at or after index i whose `worker.thread.take()` is
\* Some, or the number of Workers when the loop is over.
NextJoinable(i) ==
    LET left == {k \in WorkerIds : k >= i /\ workers[k].thread = "Some"}
    IN IF left = {} THEN Cardinality(WorkerIds)
       ELSE CHOOSE k \in left : \A m \in left : k <= m

\* The loop of drop arrives at index i: it takes the thread handle of the
\* next Worker that has one and calls join on it, or it is over and drop
\* returns.
LoopFrom(i) ==
    LET k == NextJoinable(i)
    IN /\ joinIdx' = k
       /\ IF k \in WorkerIds
          THEN /\ workers' = [workers EXCEPT ![k].thread = "None"]
               /\ pc' = "drop_join"
          ELSE /\ UNCHANGED workers
               /\ pc' = "dropped"

\* `drop(self.sender.take())`, then the loop over the Workers begins.
\* Faulty variant: `drop(self.sender.take().unwrap())`, which panics when
\* the sender was already taken.
drop_unwrap_sender ==
    /\ pc = "live"
    /\ sender' = SenderAfterTake(sender)
    /\ IF sender = "Some"
       THEN LoopFrom(0)
       ELSE pc' = "drop_panicked" /\ UNCHANGED <<workers, joinIdx>>
    /\ UNCHANGED <<reqSize, channel, clones, queue, lockOwner, poisoned,
                   wstate, wjob, nextJob, cstate>>
    /\ UNCHANGED histVars

drop_take_sender ==
    /\ pc = "live"
    /\ sender' = SenderAfterTake(sender)
    /\ LoopFrom(0)
    /\ UNCHANGED <<reqSize, channel, clones, queue, lockOwner, poisoned,
                   wstate, wjob, nextJob, cstate>>
    /\ UNCHANGED histVars

\* `thread.join().unwrap()`: blocks until the thread has ended; it panics
\* when the thread panicked, and otherwise the loop goes on.
drop_join ==
    /\ pc = "drop_join"
    /\ JoinReturns(joinIdx)
    /\ IF JoinResult(joinIdx) = "Ok"
       THEN LoopFrom(joinIdx + 1)
       ELSE pc' = "drop_panicked" /\ UNCHANGED <<workers, joinIdx>>
    /\ UNCHANGED <<reqSize, channel, sender, clones, queue, lockOwner,
                   poisoned, wstate, wjob, nextJob, cstate>>
    /\ UNCHANGED histVars

----------------------------------------------------------------------------
WorkerNext ==
    \E w \in 0..(MaxSize - 1) :
        \/ worker_lock(w)
        \/ worker_recv_ok(w)
        \/ worker_recv_err(w)
        \/ job_return(w)
        \/ job_panic(w)

Next ==
    \/ \E size \in 0..MaxSize : new(size)
    \/ \E c \in Callers : execute(c)
    \/ clone_sender
    \/ take_sender
    \/ clone_send
    \/ clone_drop
    \/ WorkerNext
    \/ drop_take_sender
    \/ drop_join

Spec == Init /\ [][Next]_vars

\* Fair scheduling of the Worker threads and of the thread running drop;
\* every Job's execution ends.  Callers are under no obligation.
FairSpec == Spec /\ WF_vars(WorkerNext) /\ WF_vars(drop_join)

----------------------------------------------------------------------------
\* Vocabulary of the properties

\* How many times Job j was handed to a Worker and started.
ExecCount(j) == Cardinality({i \in 1..Len(deqLog) : deqLog[i] = j})

\* drop is over: it returned, or it unwound out of `join().unwrap()`.
TeardownOver == pc \in {"dropped", "drop_panicked"}

\* drop has released the sender and is in its loop over the Workers.
InTeardown == pc = "drop_join"

\* Job j was started, its execution ended, and it did not return.
JobFailed(j) ==
    /\ j \in Range(deqLog)
    /\ j \notin completed
    /\ \A w \in WorkerIds : wjob[w] # j

\* This step is the end of a failed Job on Worker w.
JobFailsOn(w) ==
    /\ wstate[w] = "executing"
    /\ wstate'[w] # "executing"
    /\ wjob[w] \notin completed'

\* This step is a call of execute: it creates a Job, and either no clone
\* of the sender exists that could have sent it or it ends its caller.
ExecuteStep ==
    /\ pc = "live"
    /\ nextJob' = nextJob + 1
    /\ clones = 0 \/ cstate' # cstate

----------------------------------------------------------------------------
\* C1: once teardown is over, every Job that entered the Queue through a
\* successful submit has been started exactly once (so by exactly one
\* Worker): none zero times, none twice.
C1_ExactlyOnceAfterTeardown ==
    TeardownOver => \A j \in Range(enqLog) : ExecCount(j) = 1

\* C2: in the state where drop has returned, the Queue is empty, no Worker
\* is executing or holding the lock, every Worker has terminated, and every
\* Job that was ever enqueued has run to completion.
C2_DropReturnsAfterAllJobs ==
    pc = "dropped" =>
        /\ queue = <<>>
        /\ \A w \in WorkerIds : wstate[w] = "terminated" /\ wjob[w] = NoJob
        /\ lockOwner = NoOwner
        /\ Range(enqLog) \subseteq completed
        /\ \A j \in Range(enqLog) : ExecCount(j) = 1

\* drop has returned from a pool of several Workers that ran several Jobs.
C2_Witness ==
    /\ pc = "dropped"
    /\ Cardinality(WorkerIds) >= 2
    /\ Cardinality(completed) >= 2

C4_ReleaseBeforeJoin ==
    pc = "drop_join" => sender = "None"

\* drop is blocked in the join of a Worker that is still running.
C4_Witness ==
    /\ pc = "drop_join"
    /\ ~Finished(joinIdx)

\* C5: the Jobs are dequeued in the order they were enqueued: the dequeue
\* log is a prefix of the enqueue log, whatever the number of Workers (with
\* one Worker, that is the order of execution).
C5_DeliveryInSubmissionOrder == IsPrefix(deqLog, enqLog)

\* Two Workers: the first Job is still executing while the second Job,
\* dequeued after it, has already completed.
C5_Witness ==
    /\ Len(deqLog) >= 2
    /\ deqLog[2] \in completed
    /\ \E w \in WorkerIds : wjob[w] = deqLog[1]

\* C6: with several callers submitting, every Job submitted while the pool
\* held its sender is enqueued exactly once, and once teardown is over the
\* number of executions is the number of Jobs enqueued.
C6_ConcurrentSubmitsAllExecuted ==
    [][/\ (ExecuteStep /\ sender = "Some") =>
            enqLog' = Append(enqLog, nextJob)
       /\ \A i, k \in 1..Len(enqLog') : enqLog'[i] = enqLog'[k] => i = k
       /\ TeardownOver' => Len(deqLog') = Len(enqLog')]_vars

\* C7: a Worker whose Job fails stays running and goes back to receiving;
\* the number of live Workers does not change.
C7_WorkerSurvivesFailedJob ==
    [][\A w \in WorkerIds : JobFailsOn(w) => wstate'[w] = "locking"]_vars

\* C8: no Job runs while its Worker holds the lock of the Queue, so a
\* failed Job leaves the lock neither held nor poisoned: the lock is only
\* ever held by a Worker inside recv.
C8_FailedJobLeavesLockUsable ==
    /\ ~poisoned
    /\ \A w \in WorkerIds : wstate[w] # "receiving" => lockOwner # w

\* A Job has failed on one Worker; a Job is still queued, the lock is free
\* and sound, and another Worker is about to take it.
C8_Witness ==
    /\ \E w, v \in WorkerIds :
        /\ wstate[w] = "panicked"
        /\ wstate[v] = "locking"
    /\ \E j \in Jobs : JobFailed(j)
    /\ queue # <<>>
    /\ lockOwner = NoOwner
    /\ ~poisoned

\* C9: a call of execute made when the pool's sender is None panics: the
\* calling thread unwinds, nothing is enqueued, the Queue and the Workers
\* are as they were, and the Job is never started.
C9_ExecuteAfterReleasePanics ==
    /\ [][(ExecuteStep /\ sender = "None") =>
            /\ \E c \in Callers :
                cstate[c] = "running" /\ cstate'[c] = "panicked"
            /\ queue' = queue
            /\ enqLog' = enqLog
            /\ wstate' = wstate
            /\ wjob' = wjob
            /\ lockOwner' = lockOwner]_vars
    /\ [](Range(deqLog) \subseteq Range(enqLog))

\* A caller's execute has panicked on a pool whose Workers are all sound,
\* which only a released sender explains.
C9_Witness ==
    /\ pc = "live"
    /\ sender = "None"
    /\ \E c \in Callers : cstate[c] = "panicked"
    /\ \A w \in WorkerIds : wstate[w] # "panicked"
    /\ ReceiverAlive

C11_NewZeroPanics ==
    /\ (pc # "start" /\ reqSize = 0) =>
        /\ pc = "new_panicked"
        /\ ~channel
        /\ WorkerIds = {}
        /\ sender = "None"
    /\ pc = "new_panicked" => reqSize = 0

\* ThreadPool::new(0) has panicked.
C11_Witness ==
    /\ pc = "new_panicked"
    /\ reqSize = 0

\* C12: a pool built with size >= 1 has exactly size Workers, at indices
\* 0..size-1, the Worker at index i having id i; their number and their
\* ids never change afterwards.
C12_WorkersAreZeroToSize ==
    /\ [](reqSize >= 1 =>
            /\ WorkerIds = 0..(reqSize - 1)
            /\ Cardinality(WorkerIds) = reqSize
            /\ \A i \in WorkerIds : workers[i].id = i
            /\ DOMAIN wstate = WorkerIds)
    /\ [][pc # "start" =>
            /\ DOMAIN workers' = DOMAIN workers
            /\ \A i \in WorkerIds : workers'[i].id = workers[i].id]_vars

\* A pool of size 3 whose third Worker has id 2, after teardown.
C12_Witness ==
    /\ reqSize = 3
    /\ workers[2].id = 2
    /\ pc = "dropped"

\* C13: the pool that new returns holds its sender, and while the pool is
\* live nothing the pool does releases it: the sender goes from Some to
\* None only when teardown begins or when a caller takes it out of the
\* public field, a step that touches nothing else.
C13_SenderHeldUntilTeardown ==
    /\ [][(pc = "start" /\ pc' = "live") => sender' = "Some"]_vars
    /\ [][(pc = "live" /\ sender = "Some" /\ sender' # "Some") =>
            \/ pc' # "live"
            \/ UNCHANGED <<pc, reqSize, channel, workers, clones, queue,
                           lockOwner, poisoned, wstate, wjob, joinIdx,
                           nextJob, cstate, enqLog, deqLog, completed>>]_vars

\* The pool is live and still holds its sender after every Job of the run
\* was submitted and several were executed.
C13_Witness ==
    /\ pc = "live"
    /\ sender = "Some"
    /\ Len(enqLog) = MaxJobs
    /\ Cardinality(completed) >= 2

\* C14: execute never blocks on the Workers: while the pool holds its
\* sender a call of execute can always be made, and it returns with the
\* Job appended to the queue, no Worker having dequeued or run anything in
\* that step, whatever the queue holds and whatever the Workers are doing.
C14_SubmitAlwaysCompletes ==
    /\ []((pc = "live" /\ sender = "Some" /\ nextJob <= MaxJobs) =>
            \A c \in Callers : cstate[c] = "running" => ENABLED execute(c))
    /\ [][(ExecuteStep /\ sender = "Some") =>
            /\ cstate' = cstate
            /\ queue' = Append(queue, nextJob)
            /\ UNCHANGED <<deqLog, completed, wstate, wjob, lockOwner>>]_vars

\* C15: releasing the sender is idempotent.  When the sender is already
\* None, teardown can still begin; and whether the sender was Some or None,
\* the first step of teardown leaves it None, takes the handle of Worker 0
\* and goes on to join it, touching nothing else, so both teardowns
\* continue from the same state.
C15_ReleaseIsIdempotent ==
    /\ []((pc = "live" /\ sender = "None") => ENABLED drop_take_sender)
    /\ [][(pc = "live" /\ pc' # "live") =>
            /\ sender' = "None"
            /\ pc' = "drop_join"
            /\ joinIdx' = 0
            /\ workers' = [workers EXCEPT ![0].thread = "None"]
            /\ UNCHANGED <<reqSize, channel, clones, queue, lockOwner,
                           poisoned, wstate, wjob, nextJob, cstate,
                           enqLog, deqLog, completed>>]_vars

\* Teardown has returned although the sender was None before it began: a
\* caller's execute had panicked on the missing sender, every Worker has
\* terminated and the Jobs enqueued earlier were all executed.
C15_Witness ==
    /\ pc = "dropped"
    /\ \E c \in Callers : cstate[c] = "panicked"
    /\ Len(enqLog) >= 1
    /\ \A w \in WorkerIds : wstate[w] = "terminated"
    /\ Range(enqLog) = completed

\* C16: the lock is released before a dequeued Job starts: the step that
\* starts a Job leaves the lock free, a Worker that executes a Job never
\* keeps a waiting Worker from taking the lock (only a Worker inside
\* receive does), and the Jobs executing at the same time are distinct.
C16_LockReleasedBeforeJobRuns ==
    /\ [][\A w \in WorkerIds :
            (wstate[w] = "receiving" /\ wstate'[w] = "executing") =>
                lockOwner' = NoOwner]_vars
    /\ [](\A w, v \in WorkerIds :
            (/\ wstate[w] = "executing"
             /\ wstate[v] = "locking"
             /\ \A u \in WorkerIds : wstate[u] # "receiving") =>
                ENABLED worker_lock(v))
    /\ [](\A w, v \in WorkerIds :
            (w # v /\ wstate[w] = "executing" /\ wstate[v] = "executing") =>
                wjob[w] # wjob[v])

\* A pool of size 3 runs three Jobs at once, one on each Worker.
C16_Witness ==
    /\ reqSize = 3
    /\ \A w \in WorkerIds : wstate[w] = "executing"
    /\ {wjob[w] : w \in WorkerIds} = {1, 2, 3}
    /\ lockOwner = NoOwner

\* C17: a Worker's thread ends only when receive reports the queue closed
\* and empty: in no step does a Worker go from running to ended while a
\* Job is buffered or a producer handle exists, and an ended Worker stays
\* as it is.
C17_EndsOnlyWhenClosedAndEmpty ==
    /\ [][\A w \in WorkerIds :
            (~Finished(w) /\ wstate'[w] \in {"terminated", "panicked"}) =>
                (queue = <<>> /\ Disconnected)]_vars
    /\ [][\A w \in WorkerIds :
            Finished(w) => wstate'[w] = wstate[w]]_vars

\* C18: access to the dequeue end is mutually exclusive: at most one Worker
\* is inside receive, it is the holder of the lock, also while it blocks on
\* an empty open queue, and the others wait for the lock; only the holder
\* dequeues.
C18_OneWorkerInReceive ==
    /\ [](Cardinality({w \in WorkerIds : wstate[w] = "receiving"}) <= 1)
    /\ [](\A w \in WorkerIds : wstate[w] = "receiving" <=> lockOwner = w)
    /\ [][deqLog' # deqLog =>
            (lockOwner \in WorkerIds /\ wstate'[lockOwner] = "executing")]_vars

\* One Worker blocks inside receive on the empty open queue, holding the
\* lock, while the two others wait for the lock.
C18_Witness ==
    /\ pc = "live"
    /\ sender = "Some"
    /\ queue = <<>>
    /\ \E w \in WorkerIds :
        /\ lockOwner = w
        /\ wstate[w] = "receiving"
        /\ Cardinality({v \in WorkerIds : wstate[v] = "locking"}) = 2

\* C19: a clone of the sender held when teardown starts keeps the queue
\* open: while a clone exists no Worker sees the queue closed, a Job sent
\* through the clone during teardown is enqueued, a buffered Job then
\* leaves the queue only by being handed to a Worker, and drop stays
\* blocked in join for as long as a clone is held.
C19_CloneKeepsQueueOpen ==
    /\ [](clones > 0 => \A w \in WorkerIds : wstate[w] # "terminated")
    /\ [][(InTeardown /\ clones > 0 /\ nextJob' # nextJob) =>
            (enqLog' = Append(enqLog, nextJob) /\ queue' = Send(queue, nextJob))]_vars
    /\ [][(InTeardown /\ clones > 0 /\ Len(queue') < Len(queue)) =>
            deqLog' = Append(deqLog, Head(queue))]_vars
    /\ [][(InTeardown /\ clones > 0) => InTeardown']_vars

\* C20: teardown joins the Workers one at a time in id order and takes each
\* handle once: the handles taken are exactly those of the Workers up to
\* the one being joined, every Worker before it has ended normally, and a
\* taken handle is never there again.  When teardown reaches a Worker whose
\* thread was ended by a failed Job it fails fatally there, and the Workers
\* with higher ids keep their handles for good: they are never joined.
C20_JoinInOrderStopsAtFailure ==
    /\ [](pc \in {"drop_join", "drop_panicked"} =>
            /\ joinIdx \in WorkerIds
            /\ \A w \in WorkerIds :
                /\ workers[w].thread = "None" <=> w <= joinIdx
                /\ w < joinIdx => wstate[w] = "terminated")
    /\ [](pc = "drop_panicked" => wstate[joinIdx] = "panicked")
    /\ [](pc \in {"start", "live"} =>
            \A w \in WorkerIds : workers[w].thread = "Some")
    /\ [][\A w \in WorkerIds :
            workers[w].thread = "None" => workers'[w].thread = "None"]_vars
    /\ [][pc = "drop_join" =>
            /\ joinIdx' \in {joinIdx, joinIdx + 1}
            /\ (joinIdx' # joinIdx => wstate[joinIdx] = "terminated")
            /\ (pc' # pc /\ wstate[joinIdx] = "panicked") =>
                    pc' = "drop_panicked"]_vars
    /\ [][pc = "drop_panicked" => UNCHANGED <<pc, workers, joinIdx>>]_vars

\* Teardown has failed at Worker 0, whose Job failed, while a Worker with
\* a higher id is still executing a Job, another Job is still buffered,
\* and those Workers' handles were never taken.
C20_Witness ==
    /\ pc = "drop_panicked"
    /\ joinIdx = 0
    /\ wstate[0] = "panicked"
    /\ queue # <<>>
    /\ \E w \in WorkerIds :
        /\ w > joinIdx
        /\ wstate[w] = "executing"
    /\ \A w \in WorkerIds : w > joinIdx => workers[w].thread = "Some"

====
